---- MODULE Spec2Model ----
(***************************************************************************)
(* A model of the ditherer demo: the TypeGPU component                     *)
(* (src/src/components/TypeGPU.vue), which keeps the adjustment values and *)
(* the threshold matrix and projects them into a uniform buffer, and the   *)
(* WGSL fragment functions (src/src/shaders/image.ts, src/unnamed/part_001)*)
(* that tone-map and dither one pixel.                                     *)
(*                                                                         *)
(* Numbers.  A JavaScript number is modelled as an exact fraction n/d or   *)
(* NaN (every number the component handles is a slider position, a typed   *)
(* integer, or one of those divided by 16).  A value stored in the uniform *)
(* buffer is an f32: it is modelled as num / 2^exp with num odd, obtained  *)
(* from the fraction by rounding to a 24 bit significand, ties to even.    *)
(***************************************************************************)
EXTENDS Integers, Sequences, FiniteSets, TLC

VARIABLES
  pc,                 \* where the asynchronous startup (onMounted, ready, init) stands
  root,               \* the module-level `root`: "undefined" or "live"
  bufferCreated,      \* whether `adjustmentsBuffer` has been assigned
  uniform,            \* the contents of the uniform buffer (the GPU-visible projection)
  imageTexture,       \* the module-level `imageTexture`: "undefined" or "created"
  adjustmentsValues,  \* the ref `adjustmentsValues`: the displayed scalar values
  matrix,             \* the ref `matrix`; it wraps, and so aliases, `orderedMatrix`
  lastOp,             \* the handler or startup step that ran last, and how it ended
  fullWrites,         \* how many times adjustmentsBuffer.write (the full write) ran
  edits,              \* how many UI events have been handled
  frag,               \* the fragment invocation under evaluation (SpecShader)
  mounted             \* whether the component is mounted (onUnmounted has not run)

vars == <<pc, root, bufferCreated, uniform, imageTexture, adjustmentsValues,
          matrix, lastOp, fullWrites, edits, frag, mounted>>

----------------------------------------------------------------------------
(* Bounds of the model. *)

\* UI events handled in one behaviour
MaxEdits == 2

----------------------------------------------------------------------------
(* JavaScript numbers and f32 values. *)

Js(n, d) == [nan |-> FALSE, n |-> n, d |-> d]
JsNaN == [nan |-> TRUE, n |-> 0, d |-> 1]

\* a + k for an integer k (NaN stays NaN)
JsAdd(a, k) == IF a.nan THEN JsNaN ELSE Js(a.n + k * a.d, a.d)

\* a / k for a positive integer k
JsDiv(a, k) == IF a.nan THEN JsNaN ELSE Js(a.n, a.d * k)

\* JavaScript's a == k for an integer k: false for NaN
JsEqInt(a, k) == ~a.nan /\ a.n = k * a.d

Abs(n) == IF n < 0 THEN -n ELSE n

RECURSIVE Gcd(_, _)
Gcd(a, b) == IF b = 0 THEN a ELSE Gcd(b, a % b)

\* the significand bits of an f32 below its leading bit
F32FractionBits == 23

F32Value(num, exp) == [nan |-> FALSE, num |-> num, exp |-> exp]
F32NaN == [nan |-> TRUE, num |-> 0, exp |-> 0]
F32Zero == F32Value(0, 0)

\* num / 2^exp with the factors of two taken out of num
RECURSIVE F32Normal(_, _)
F32Normal(m, e) ==
  IF m = 0 THEN F32Zero
  ELSE IF m % 2 = 0 THEN F32Normal(m \div 2, e - 1)
  ELSE F32Value(m, e)

\* binary long division of r/d under the significand m, until the
\* significand is full or the division is exact
RECURSIVE F32Bits(_, _, _, _)
F32Bits(m, r, e, d) ==
  IF r = 0 \/ m >= 2 ^ F32FractionBits THEN [m |-> m, r |-> r, e |-> e]
  ELSE LET bit == IF 2 * r >= d THEN 1 ELSE 0
       IN F32Bits(2 * m + bit, 2 * r - bit * d, e + 1, d)

\* round to nearest, ties to even, on the remainder r/d
F32Round(b, d) ==
  IF 2 * b.r > d \/ (2 * b.r = d /\ b.m % 2 = 1) THEN b.m + 1 ELSE b.m

\* the f32 nearest to the JavaScript number a (what a Float32Array stores)
ToF32(a) ==
  IF a.nan THEN F32NaN
  ELSE LET n == Abs(a.n)
           b == F32Bits(n \div a.d, n % a.d, 0, a.d)
           m == F32Round(b, a.d)
           v == F32Normal(m, b.e)
       IN IF a.n < 0 THEN F32Value(-v.num, v.exp) ELSE v

RECURSIVE IsPow2Exp(_, _)
\* d = 2^e
IsPow2Exp(d, e) ==
  IF e = 0 THEN d = 1
  ELSE d % 2 = 0 /\ IsPow2Exp(d \div 2, e - 1)

\* the f32 f and the JavaScript number a are the same real number (NaN
\* equals nothing)
F32EqJs(f, a) ==
  /\ ~f.nan /\ ~a.nan
  /\ (f.num < 0) = (a.n < 0)
  /\ LET g == Gcd(Abs(a.n), a.d)
         n == Abs(a.n) \div g
         d == a.d \div g
         m == Abs(f.num)
     IN IF m = 0 THEN n = 0
        ELSE IF f.exp >= 0 THEN n = m /\ IsPow2Exp(d, f.exp)
        ELSE d = 1 /\ n % m = 0 /\ IsPow2Exp(n \div m, -f.exp)

\* ToInt32 of the JavaScript number a (what an Int32 store keeps): the
\* fraction is dropped toward zero, NaN becomes 0
ToI32(a) ==
  IF a.nan THEN 0
  ELSE IF a.n < 0 THEN -(Abs(a.n) \div a.d) ELSE a.n \div a.d

----------------------------------------------------------------------------
(* The parameter schema and the component's constants. *)

\* d.arrayOf(d.f32, 100)
ArrayLength == 100

\* the f32 fields of Adjustments that a slider drives (AdjustmentsKey)
AdjustmentsKey == {"exposure", "contrast", "highlights", "shadows"}

\* keyof typeof adjustmentsBuffer.dataType.propTypes, less the array
ScalarPropKeys == AdjustmentsKey \cup {"matrixWidth", "matrixHeight"}

\* the sliders: key, and min and max in steps of 0.01
ADJUSTMENTS_CONTROLS ==
  { [key |-> "exposure",   min |-> -200, max |-> 200],
    [key |-> "contrast",   min |-> 0,    max |-> 200],
    [key |-> "highlights", min |-> 0,    max |-> 200],
    [key |-> "shadows",    min |-> 10,   max |-> 190] }

\* step: 0.01, as the number of steps in 1
StepsPerUnit == 100

\* the slider positions tried, in steps of 0.01: the low end of the exposure
\* track, one position f32 does not hold exactly (0.1) and two it does
SliderSteps == {-200, 10, 50, 150}

\* the positions the slider of a control can emit: within its min and max
SliderValues(control) ==
  { Js(n, StepsPerUnit) : n \in { k \in SliderSteps : control.min <= k /\ k <= control.max } }

JsInt(n) == Js(n, 1)

JsRow(r) == [i \in 1..Len(r) |-> JsInt(r[i])]

orderedMatrix ==
  << JsRow(<< 0, 12,  3, 15>>),
     JsRow(<< 8,  4, 11,  7>>),
     JsRow(<< 2, 14,  1, 13>>),
     JsRow(<<10,  6,  9,  5>>) >>

\* matrix.value[0]!.length and matrix.value.length
matrixWidth == Len(matrix[1])
matrixHeight == Len(matrix)

\* an empty slot of an array (what an assignment past the end leaves
\* between the old end and the new element)
JsHole == [nan |-> FALSE, n |-> 0, d |-> 0]
IsHole(a) == a.d = 0

\* Array.prototype.flat on the rows: the elements in row order, empty
\* slots skipped
RECURSIVE Flat(_)
Flat(rows) ==
  IF rows = <<>> THEN <<>>
  ELSE SelectSeq(Head(rows), LAMBDA a : ~IsHole(a)) \o Flat(Tail(rows))

\* the numbers a typed cell edit can carry (valueAsNumber): in range, the
\* ends of the range, outside it (min="0" only marks the field invalid), and
\* NaN for an emptied field
TypedValues == {JsInt(7), JsInt(16), JsInt(-1), JsNaN}

\* the cells <<y, x>> whose controls are exercised: the handlers of all
\* cells are one template, instantiated per cell; these cover the first and
\* last row and column and an inner cell
EditedCells == {<<0, 0>>, <<0, 3>>, <<1, 2>>, <<3, 1>>}

----------------------------------------------------------------------------
(* The uniform buffer. *)

\* a buffer as the device creates it: zero-filled
ZeroBuffer ==
  [exposure |-> F32Zero, contrast |-> F32Zero, highlights |-> F32Zero,
   shadows |-> F32Zero,
   orderedMatrixArray |-> [i \in 0..(ArrayLength - 1) |-> F32Zero],
   matrixWidth |-> 0, matrixHeight |-> 0]

\* the elements of `values` stored from index 0; the rest of the array is
\* left as it is
StoreArray(array, values) ==
  LET stored == [i \in 1..Len(values) |-> ToF32(values[i])]
      n == Len(stored)
  IN [i \in DOMAIN array |-> IF i < n THEN stored[i + 1] ELSE array[i]]

\* a full upload that carries only the one field
MutWritePartial(u, key, value) ==
  [ZeroBuffer EXCEPT ![key] = IF key \in AdjustmentsKey THEN ToF32(value) ELSE ToI32(value)]

\* adjustmentsBuffer.writePartial({ [key]: value }) for a scalar field: an
\* f32 field stores the nearest f32, an i32 field stores ToInt32
writePartial(u, key, value) ==
  IF key \in AdjustmentsKey
  THEN [u EXCEPT ![key] = ToF32(value)]
  ELSE [u EXCEPT ![key] = ToI32(value)]

\* matrix.flat().map((value, idx) => ({ idx, value: value / 16 }))
MatrixEntries(m) == LET f == Flat(m) IN [i \in 1..Len(f) |-> JsDiv(f[i], 16)]

\* adjustmentsBuffer.writePartial({ orderedMatrixArray: [{idx, value}, ...] })
writePartialMatrix(u, entries) ==
  [u EXCEPT !.orderedMatrixArray = StoreArray(@, entries)]

\* adjustmentsBuffer.write({...}) in onMounted: the full write.  It reads
\* orderedMatrix, the very array the ref `matrix` wraps.
write(u, m) ==
  [exposure |-> ToF32(JsInt(1)), contrast |-> ToF32(JsInt(1)),
   highlights |-> ToF32(JsInt(1)), shadows |-> ToF32(JsInt(1)),
   orderedMatrixArray |-> StoreArray(u.orderedMatrixArray, MatrixEntries(m)),
   matrixWidth |-> 4, matrixHeight |-> 4]

----------------------------------------------------------------------------
(* The component: startup and event handlers. *)

NoValue == JsInt(0)

\* a handler that writes and then calls render(): it drew unless it threw
Op(op, key, y, x, value, err) ==
  [op |-> op, key |-> key, y |-> y, x |-> x, value |-> value,
   err |-> err, drew |-> err = "none"]

\* a startup step that does not call render()
Step(op, err) ==
  [op |-> op, key |-> "", y |-> 0, x |-> 0, value |-> NoValue,
   err |-> err, drew |-> FALSE]

\* how a handler that writes the buffer and then calls render() ends:
\* adjustmentsBuffer is undefined until ready() assigns it (TypeError at
\* writePartial), and render() reads imageTexture.createView, undefined
\* until init() assigns it (TypeError before anything is submitted)
HandlerEnd ==
  IF ~bufferCreated THEN "writePartial"
  ELSE IF imageTexture = "undefined" THEN "render"
  ELSE "none"

\* the event loop can run a task: not between ready()'s last line and the
\* continuation of onMounted, which are consecutive microtasks
TaskTurn == pc \in {"ready", "fetch", "blob", "decode", "done", "failed"}

\* a UI handler can run: the component's controls exist while it is mounted
UiTurn == TaskTurn /\ mounted /\ edits < MaxEdits

Init ==
  /\ pc = "ready"
  /\ root = "undefined"
  /\ bufferCreated = FALSE
  /\ uniform = ZeroBuffer
  /\ imageTexture = "undefined"
  /\ adjustmentsValues = [k \in AdjustmentsKey |-> JsInt(1)]
  /\ matrix = orderedMatrix
  /\ lastOp = Step("mount", "none")
  /\ fullWrites = 0
  /\ edits = 0
  /\ frag = "idle"
  /\ mounted = TRUE

\* document.querySelector("canvas") finds the component's canvas while it
\* is mounted; afterwards it finds a canvas only if the rest of the document
\* holds one
CanvasFound == IF mounted THEN {TRUE} ELSE BOOLEAN

\* ready(): tgpu.init() resolves; root, device, context and the buffer are
\* set.  With no canvas, canvas.getContext throws a TypeError after root is
\* assigned, and onMounted ends there
ready ==
  /\ pc = "ready"
  /\ root' = "live"
  /\ \E canvas \in CanvasFound :
       IF canvas
       THEN /\ pc' = "write"
            /\ bufferCreated' = TRUE
            /\ uniform' = ZeroBuffer
            /\ lastOp' = Step("ready", "none")
       ELSE /\ pc' = "failed"
            /\ lastOp' = Step("ready", "canvas.getContext")
            /\ UNCHANGED <<bufferCreated, uniform>>
  /\ UNCHANGED <<imageTexture, adjustmentsValues, matrix, fullWrites, edits, frag, mounted>>

\* tgpu.init() rejects (no WebGPU device): onMounted ends there
readyRejects ==
  /\ pc = "ready"
  /\ pc' = "failed"
  /\ lastOp' = Step("ready", "tgpu.init")
  /\ UNCHANGED <<root, bufferCreated, uniform, imageTexture, adjustmentsValues,
                 matrix, fullWrites, edits, frag, mounted>>

\* onMounted after `await ready()`: the full write, then init() up to its fetch
onMounted ==
  /\ pc = "write"
  /\ pc' = "fetch"
  /\ uniform' = write(uniform, matrix)
  /\ fullWrites' = fullWrites + 1
  /\ lastOp' = Step("write", "none")
  /\ UNCHANGED <<root, bufferCreated, imageTexture, adjustmentsValues, matrix,
                 edits, frag, mounted>>

\* init(): fetch resolves, then response.blob()
fetchResolves ==
  /\ pc \in {"fetch", "blob"}
  /\ pc' = IF pc = "fetch" THEN "blob" ELSE "decode"
  /\ lastOp' = Step(pc, "none")
  /\ UNCHANGED <<root, bufferCreated, uniform, imageTexture, adjustmentsValues,
                 matrix, fullWrites, edits, frag, mounted>>

\* init(): the fetch, the blob or the decode rejects; init() ends there
initRejects ==
  /\ pc \in {"fetch", "blob", "decode"}
  /\ pc' = "failed"
  /\ lastOp' = Step("init", pc)
  /\ UNCHANGED <<root, bufferCreated, uniform, imageTexture, adjustmentsValues,
                 matrix, fullWrites, edits, frag, mounted>>

\* render(): throws before submitting when imageTexture is undefined
renderThrows(texture) == texture = "undefined"

\* root["~unstable"].createTexture and the copy into it on a destroyed
\* root: the library either throws or goes on with a dead device
CreateTextureThrows == IF root = "destroyed" THEN BOOLEAN ELSE {FALSE}

\* init() after createImageBitmap resolves: the texture is created and
\* filled, then render()
init ==
  /\ pc = "decode"
  /\ \E threw \in CreateTextureThrows :
       IF threw
       THEN /\ pc' = "failed"
            /\ lastOp' = Step("init", "createTexture")
            /\ UNCHANGED imageTexture
       ELSE /\ pc' = "done"
            /\ imageTexture' = "created"
            /\ lastOp' = Op("init", "", 0, 0, NoValue,
                            IF renderThrows("created") THEN "render" ELSE "none")
  /\ UNCHANGED <<root, bufferCreated, uniform, adjustmentsValues, matrix,
                 fullWrites, edits, frag, mounted>>

\* onUnmounted: onCleanup() calls root.destroy(); root is undefined until
\* tgpu.init() resolves (TypeError).  Nothing cancels the pending startup
onUnmounted ==
  /\ TaskTurn
  /\ mounted
  /\ mounted' = FALSE
  /\ root' = IF root = "undefined" THEN root ELSE "destroyed"
  /\ lastOp' = Step("unmount", IF root = "undefined" THEN "root.destroy" ELSE "none")
  /\ UNCHANGED <<pc, bufferCreated, uniform, imageTexture, adjustmentsValues,
                 matrix, fullWrites, edits, frag>>

\* setBufferValue(key, value): writePartial, then render()
setBufferValue(op, key, value) ==
  /\ uniform' = IF bufferCreated THEN writePartial(uniform, key, value) ELSE uniform
  /\ lastOp' = Op(op, key, 0, 0, value, HandlerEnd)

\* Slider @update:modelValue: the displayed value, then control.onUpdate
SliderUpdate(control, value) ==
  /\ UiTurn
  /\ edits' = edits + 1
  /\ adjustmentsValues' = [adjustmentsValues EXCEPT ![control.key] = value]
  /\ setBufferValue("slider", control.key, value)
  /\ UNCHANGED <<pc, root, bufferCreated, imageTexture, matrix, fullWrites, frag, mounted>>

\* the two indices taken in the wrong order
MutSetCell(m, y, x, value) == [m EXCEPT ![x + 1][y + 1] = value]

\* matrix[y]![x]! = value, for a row y that exists: an index inside the row
\* replaces the element, an index past the end lengthens the row (leaving
\* empty slots in between), and a negative index sets a property that is
\* no element
SetCell(m, y, x, value) ==
  IF x < 0 THEN m
  ELSE IF x < Len(m[y + 1]) THEN [m EXCEPT ![y + 1][x + 1] = value]
  ELSE [m EXCEPT ![y + 1] =
          [i \in 1..(x + 1) |->
             IF i = x + 1 THEN value
             ELSE IF i <= Len(m[y + 1]) THEN m[y + 1][i]
             ELSE JsHole]]

\* matrix[y] is undefined: the assignment throws a TypeError
RowMissing(y) == y < 0 \/ y >= matrixHeight

\* how a matrix handler ends
MatrixHandlerEnd(y) == IF RowMissing(y) THEN "matrix[y]" ELSE HandlerEnd

\* the body of the three matrix handlers: the cell is assigned, the whole
\* matrix is flattened and written, then render()
MatrixHandler(op, y, x, value) ==
  /\ UiTurn
  /\ edits' = edits + 1
  /\ matrix' = IF RowMissing(y) THEN matrix ELSE SetCell(matrix, y, x, value)
  /\ uniform' = IF MatrixHandlerEnd(y) \in {"matrix[y]", "writePartial"}
                THEN uniform
                ELSE writePartialMatrix(uniform, MatrixEntries(matrix'))
  /\ lastOp' = Op(op, "", y, x, value, MatrixHandlerEnd(y))
  /\ UNCHANGED <<pc, root, bufferCreated, imageTexture, adjustmentsValues,
                 fullWrites, frag, mounted>>

Cell(y, x) == matrix[y + 1][x + 1]

\* the minus button: disabled when cell == 0
MinusClick(y, x) ==
  /\ ~JsEqInt(Cell(y, x), 0)
  /\ MatrixHandler("minus", y, x, JsAdd(Cell(y, x), -1))

\* the plus button: disabled when cell == matrixHeight * matrixWidth - 1
PlusClick(y, x) ==
  /\ ~JsEqInt(Cell(y, x), matrixHeight * matrixWidth - 1)
  /\ MatrixHandler("plus", y, x, JsAdd(Cell(y, x), 1))

\* the number input's @change
InputChange(y, x, value) == MatrixHandler("change", y, x, value)

Next ==
  \/ ready
  \/ readyRejects
  \/ onMounted
  \/ fetchResolves
  \/ initRejects
  \/ init
  \/ onUnmounted
  \/ \E control \in ADJUSTMENTS_CONTROLS : \E value \in SliderValues(control) :
       SliderUpdate(control, value)
  \/ \E c \in EditedCells :
       \/ MinusClick(c[1], c[2])
       \/ PlusClick(c[1], c[2])
       \/ \E value \in TypedValues : InputChange(c[1], c[2], value)

Spec == Init /\ [][Next]_vars

----------------------------------------------------------------------------
(* The functions called with any argument of their declared types.          *)
(* setBufferValue takes key: keyof typeof                                    *)
(* adjustmentsBuffer.dataType.propTypes, wider than AdjustmentsKey; the cell *)
(* handler takes the numbers y and x of its v-for.  The component itself     *)
(* passes only the four slider keys and the indices of cells that exist.     *)

\* the values passed to setBufferValue: inside every slider's range, and 0,
\* below the range of the shadows slider
CallValues == {JsInt(2), Js(150, StepsPerUnit), JsInt(0)}

\* row and column indices passed to the cell handler: before the first,
\* inside, just past the last, and further
CallRows == {-1, 1, 4}
CallColumns == {-1, 2, 4, 5}

\* setBufferValue(key, value) called directly
setBufferValueCall(key, value) ==
  /\ UiTurn
  /\ edits' = edits + 1
  /\ setBufferValue("setBufferValue", key, value)
  /\ UNCHANGED <<pc, root, bufferCreated, imageTexture, adjustmentsValues,
                 matrix, fullWrites, frag, mounted>>

\* the body of the number input's @change run with indices y and x
InputChangeAt(y, x, value) == MatrixHandler("changeAt", y, x, value)

NextContract ==
  \/ Next
  \/ \E key \in ScalarPropKeys : \E value \in CallValues : setBufferValueCall(key, value)
  \/ \E y \in CallRows : \E x \in CallColumns : InputChangeAt(y, x, JsInt(7))

SpecContract == Init /\ [][NextContract]_vars

----------------------------------------------------------------------------
(* The fragment functions.                                                  *)
(*                                                                          *)
(* Shader arithmetic is f32; it is modelled in fixed point, a value being   *)
(* an integer count of 1/Scale (or NaN), every product rounded to the       *)
(* nearest count.  Scale is a multiple of 16 and of 1000, so the thresholds *)
(* k/16 and the luminance weights are exact.  pow is modelled where the     *)
(* inputs drawn need it: pow(2, b) for b a multiple of 1/4 in [-1/2, 1/2],  *)
(* and pow(x, k) for a whole k.                                             *)

Scale == 2000

\* coordinates of the pixels shaded: 0..MaxCoord in x and in y
MaxCoord == 4

Fx(v) == [nan |-> FALSE, v |-> v]
FxNaN == [nan |-> TRUE, v |-> 0]
FxOne == Fx(Scale)
FxZero == Fx(0)

\* n / d rounded to the nearest integer (d > 0)
RoundDiv(n, d) ==
  IF n >= 0 THEN (2 * n + d) \div (2 * d) ELSE -((2 * (-n) + d) \div (2 * d))

\* the f32 value of a uniform field, in counts of 1/Scale
FxOfF32(f) ==
  IF f.nan THEN FxNaN
  ELSE IF f.exp <= 0 THEN Fx(f.num * (2 ^ (-f.exp)) * Scale)
  ELSE IF f.exp <= 16 THEN Fx(RoundDiv(f.num * Scale, 2 ^ f.exp))
  ELSE Fx(RoundDiv(RoundDiv(f.num, 2 ^ (f.exp - 16)) * Scale, 2 ^ 16))

FxAdd(a, b) == IF a.nan \/ b.nan THEN FxNaN ELSE Fx(a.v + b.v)
FxSub(a, b) == IF a.nan \/ b.nan THEN FxNaN ELSE Fx(a.v - b.v)
FxMul(a, b) == IF a.nan \/ b.nan THEN FxNaN ELSE Fx(RoundDiv(a.v * b.v, Scale))

\* a / b for b > 0
FxDiv(a, b) == IF a.nan \/ b.nan THEN FxNaN ELSE Fx(RoundDiv(a.v * Scale, b.v))

\* clamp(x, lo, hi) = min(max(x, lo), hi)
FxClamp(x, lo, hi) ==
  IF x.nan THEN FxNaN
  ELSE IF x.v < lo.v THEN lo ELSE IF x.v > hi.v THEN hi ELSE x

\* mix(a, b, t) = a * (1 - t) + b * t
FxMix(a, b, t) == FxAdd(FxMul(a, FxSub(FxOne, t)), FxMul(b, t))

\* smoothstep(lo, hi, x) = t * t * (3 - 2 t), t = clamp((x - lo) / (hi - lo), 0, 1)
FxSmoothstep(lo, hi, x) ==
  LET t == FxClamp(FxDiv(FxSub(x, lo), FxSub(hi, lo)), FxZero, FxOne)
  IN FxMul(FxMul(t, t), FxSub(Fx(3 * Scale), FxMul(Fx(2 * Scale), t)))

\* step(edge, x): 1.0 if edge <= x, 0.0 otherwise; with a NaN operand the
\* comparison is decided by the backend (x < edge ? 0 : 1 and
\* x >= edge ? 1 : 0 differ), so either constant can come out: nanStep
FxStep(edge, x, nanStep) ==
  IF edge.nan \/ x.nan THEN Fx(nanStep * Scale)
  ELSE IF edge.v <= x.v THEN FxOne ELSE FxZero

\* pow(2.0, b) for b a multiple of 1/4 between -1/2 and 1/2, to 1/Scale
FxExp2(b) ==
  CASE b.v = -(Scale \div 2) -> Fx(1414)
    [] b.v = -(Scale \div 4) -> Fx(1682)
    [] b.v = 0               -> Fx(2000)
    [] b.v = Scale \div 4    -> Fx(2378)
    [] b.v = Scale \div 2    -> Fx(2828)

RECURSIVE FxPowInt(_, _)
FxPowInt(x, k) == IF k = 1 THEN x ELSE FxMul(x, FxPowInt(x, k - 1))

\* pow(x, y) for a whole y >= 1.  A negative x is outside pow's domain
\* (it is exp2(y * log2(x))): the result is an indeterminate value, ind
FxPow(x, y, ind) ==
  IF x.nan \/ y.nan THEN FxNaN
  ELSE IF x.v < 0 THEN ind
  ELSE FxPowInt(x, y.v \div Scale)

\* vectors of three
Vec3(a) == <<a, a, a>>
\* clamp(c, vec3f(0.0), vec3f(1.0))
Clamp01(c) ==
  <<FxClamp(c[1], FxZero, FxOne), FxClamp(c[2], FxZero, FxOne), FxClamp(c[3], FxZero, FxOne)>>

\* clamp(x * gain, 0.0, 2.0)
Expose(x, gain) == FxClamp(FxMul(x, gain), FxZero, Fx(2 * Scale))

\* (x - 0.5) * contrast + 0.5
Contrast(x, contrast) ==
  FxAdd(FxMul(FxSub(x, Fx(Scale \div 2)), contrast), Fx(Scale \div 2))

\* c * k with a scalar k
Scale3(c, k) == <<FxMul(c[1], k), FxMul(c[2], k), FxMul(c[3], k)>>

\* pow(c, vec3f(y))
Pow3(c, y, ind) == <<FxPow(c[1], y, ind), FxPow(c[2], y, ind), FxPow(c[3], y, ind)>>

\* mix(a, b, t) with a scalar t
Mix3(a, b, t) == <<FxMix(a[1], b[1], t), FxMix(a[2], b[2], t), FxMix(a[3], b[3], t)>>

\* dot(c, vec3f(0.299, 0.587, 0.114))
Luminance(c) ==
  FxAdd(FxAdd(FxMul(c[1], Fx((299 * Scale) \div 1000)),
              FxMul(c[2], Fx((587 * Scale) \div 1000))),
        FxMul(c[3], Fx((114 * Scale) \div 1000)))

\* the tone mapping shared by the variants of main_frag: from the sampled
\* color and the adjustments to toneColor and the tone luminance (the
\* value named `grayscale` in the dithering variants)
ToneMap(u, color, ind) ==
  LET exposure == FxOfF32(u.exposure)
      contrast == FxOfF32(u.contrast)
      highlights == FxOfF32(u.highlights)
      shadows == FxOfF32(u.shadows)
      half == Fx(Scale \div 2)
      inputLuminance == Luminance(color)
      normColor == Clamp01(color)
      exposureBiased == FxMul(exposure, Fx(Scale \div 4))
      gain == FxExp2(exposureBiased)
      exposureColor == <<Expose(normColor[1], gain), Expose(normColor[2], gain),
                         Expose(normColor[3], gain)>>
      exposureLuminance == Expose(inputLuminance, gain)
      contrastColor == <<Contrast(exposureColor[1], contrast),
                         Contrast(exposureColor[2], contrast),
                         Contrast(exposureColor[3], contrast)>>
      contrastLuminance == Contrast(exposureLuminance, contrast)
      contrastColorLuminance == Luminance(contrastColor)
      highlightShift == FxSub(highlights, FxOne)
      highlightBiased == IF highlights.v >= Scale THEN highlightShift
                         ELSE FxMul(highlightShift, Fx(Scale \div 4))
      highlightFactor == FxAdd(FxOne, FxMul(FxMul(highlightBiased, half), contrastColorLuminance))
      highlightWeight == FxSmoothstep(half, FxOne, contrastColorLuminance)
      highlightLuminanceAdjust == FxMul(contrastLuminance, highlightFactor)
      highlightLuminance == FxMix(contrastLuminance,
                                  FxClamp(highlightLuminanceAdjust, FxZero, FxOne),
                                  highlightWeight)
      highlightColor == Mix3(contrastColor,
                             Clamp01(Scale3(contrastColor, highlightFactor)),
                             highlightWeight)
      shadowWeight == FxSub(FxOne, contrastColorLuminance)
      exponent == FxDiv(FxOne, shadows)
      shadowAdjust == Pow3(highlightColor, exponent, ind)
      shadowLuminanceAdjust == FxPow(highlightLuminance, exponent, ind)
      toneColor == Mix3(highlightColor, shadowAdjust, shadowWeight)
      toneLuminance == FxMix(highlightLuminance, shadowLuminanceAdjust, shadowWeight)
  IN [toneColor |-> toneColor, toneLuminance |-> toneLuminance]

\* fragCoord of pixel p, in halves: the pixel centre p + 0.5
FragCoord(p) == 2 * p + 1

\* i32(f) of a non-negative coordinate in halves: truncation
I32(halves) == halves \div 2

\* the lookup without the wrap in x
MutBayerValue(u, fx, fy) ==
  LET y == I32(fy) % u.matrixHeight
  IN FxOfF32(u.orderedMatrixArray[u.matrixWidth * y + I32(fx)])

\* adjustments.orderedMatrixArray[adjustments.matrixWidth * y + x] with
\* x = i32(fragCoord.x) % matrixWidth and y = i32(fragCoord.y) % matrixHeight
bayerValue(u, fx, fy) ==
  LET x == I32(fx) % u.matrixWidth
      y == I32(fy) % u.matrixHeight
  IN FxOfF32(u.orderedMatrixArray[u.matrixWidth * y + x])

\* const bayerIndex = mat4x4<f32>(...), its four vec4 in order, in sixteenths
bayerIndex ==
  << << 0, 12,  3, 15>>,
     << 8,  4, 11,  7>>,
     << 2, 14,  1, 13>>,
     <<10,  6,  9,  5>> >>

\* bayerIndex[i32(fragCoord.x) % 4][i32(fragCoord.y) % 4]: the first index
\* picks the vec4, the second its component
bayerIndexValue(fx, fy) ==
  Fx((bayerIndex[(I32(fx) % 4) + 1][(I32(fy) % 4) + 1] * Scale) \div 16)

\* the comparison with its operands exchanged
MutDitheredColor(threshold, grayscale, nanStep) == Vec3(FxStep(grayscale, threshold, nanStep))

\* the luminance passed through without the comparison
MutGrayColor(threshold, grayscale, nanStep) == Vec3(grayscale)

\* vec3f(step(bayerValue, grayscale))
ditheredColor(threshold, grayscale, nanStep) == Vec3(FxStep(threshold, grayscale, nanStep))

\* main_frag with the threshold array in the uniform (src/unnamed/part_001)
main_frag(u, color, fx, fy, ind, nanStep) ==
  LET tone == ToneMap(u, color, ind)
      threshold == bayerValue(u, fx, fy)
  IN [threshold |-> threshold, grayscale |-> tone.toneLuminance,
      out |-> ditheredColor(threshold, tone.toneLuminance, nanStep)]

\* main_frag with the constant bayerIndex (the first shaderCode of image.ts)
main_frag_bayerIndex(u, color, fx, fy, ind, nanStep) ==
  LET tone == ToneMap(u, color, ind)
      threshold == bayerIndexValue(fx, fy)
  IN [threshold |-> threshold, grayscale |-> tone.toneLuminance,
      out |-> ditheredColor(threshold, tone.toneLuminance, nanStep)]

\* main_frag with the saturation stage and no dithering (the second
\* shaderCode of image.ts)
main_frag_saturation(u, saturation, color, ind) ==
  LET tone == ToneMap(u, color, ind)
      finalToneColor == Clamp01(tone.toneColor)
      grayscaleColor == Vec3(tone.toneLuminance)
  IN [threshold |-> FxZero, grayscale |-> tone.toneLuminance,
      out |-> Mix3(grayscaleColor, finalToneColor, saturation)]

\* slider positions (in steps of 0.01) of the parameter sets shaded: the
\* defaults and positions on either side, within each slider's range
ShadedExposure == {-200, 100, 200}
ShadedContrast == {100, 150}
ShadedHighlights == {50, 100, 150}
ShadedShadows == {50, 100}

\* the matrices shaded: the canonical one, and it with a cell typed to 16
\* and another emptied
ShadedMatrices ==
  { orderedMatrix,
    SetCell(SetCell(orderedMatrix, 0, 1, JsInt(16)), 1, 0, JsNaN) }

\* the sampled colors shaded: black, mid-gray, white and two others
ShadedColors ==
  { <<Fx(0), Fx(0), Fx(0)>>,
    <<Fx(Scale \div 2), Fx(Scale \div 2), Fx(Scale \div 2)>>,
    <<Fx(Scale), Fx(Scale), Fx(Scale)>>,
    <<Fx(Scale), Fx(Scale \div 2), Fx(0)>>,
    <<Fx(Scale \div 5), Fx((3 * Scale) \div 5), Fx((9 * Scale) \div 10)>> }

\* adjustments.saturation, which the second shaderCode of image.ts reads
ShadedSaturation == {Fx(0), Fx(Scale), Fx(2 * Scale)}

\* the values an out-of-domain pow can return
Indeterminate == {FxNaN, FxZero, Fx(3 * Scale)}

\* the buffer after startup and one slider update per control
UniformOf(m, e, c, h, s) ==
  writePartial(writePartial(writePartial(writePartial(write(ZeroBuffer, m),
    "exposure", Js(e, StepsPerUnit)), "contrast", Js(c, StepsPerUnit)),
    "highlights", Js(h, StepsPerUnit)), "shadows", Js(s, StepsPerUnit))

NoFrag(color, px, py) ==
  [variant |-> "none", color |-> color, px |-> px, py |-> py,
   saturation |-> FxZero, threshold |-> FxZero, grayscale |-> FxZero,
   out |-> Vec3(FxZero)]

\* a frame is about to be drawn: startup is over, the buffer holds one of
\* the parameter sets, and one pixel with its sampled color is picked
InitShader ==
  /\ pc = "done"
  /\ root = "live"
  /\ bufferCreated = TRUE
  /\ imageTexture = "created"
  /\ fullWrites = 1
  /\ edits = 0
  /\ lastOp = Step("frame", "none")
  /\ mounted = TRUE
  /\ \E m \in ShadedMatrices, e \in ShadedExposure, c \in ShadedContrast,
        h \in ShadedHighlights, s \in ShadedShadows :
       /\ matrix = m
       /\ adjustmentsValues = [k \in AdjustmentsKey |->
            Js(CASE k = "exposure" -> e [] k = "contrast" -> c
                 [] k = "highlights" -> h [] k = "shadows" -> s, StepsPerUnit)]
       /\ uniform = UniformOf(m, e, c, h, s)
  /\ \E color \in ShadedColors, px \in 0..MaxCoord, py \in 0..MaxCoord :
       frag = NoFrag(color, px, py)

Shaded(variant, saturation, result) ==
  /\ frag' = [frag EXCEPT !.variant = variant, !.saturation = saturation,
                          !.threshold = result.threshold,
                          !.grayscale = result.grayscale, !.out = result.out]
  /\ UNCHANGED <<pc, root, bufferCreated, uniform, imageTexture,
                 adjustmentsValues, matrix, lastOp, fullWrites, edits, mounted>>

\* the pixel is shaded by the uniform-array variant
FragUniform ==
  /\ frag.variant = "none"
  /\ \E ind \in Indeterminate, nanStep \in {0, 1} :
       Shaded("uniform", FxZero,
              main_frag(uniform, frag.color, FragCoord(frag.px), FragCoord(frag.py), ind, nanStep))

\* the pixel is shaded by the constant-matrix variant
FragBayerIndex ==
  /\ frag.variant = "none"
  /\ \E ind \in Indeterminate, nanStep \in {0, 1} :
       Shaded("bayerIndex", FxZero,
              main_frag_bayerIndex(uniform, frag.color, FragCoord(frag.px), FragCoord(frag.py), ind, nanStep))

\* the pixel is shaded by the saturation variant
FragSaturation ==
  /\ frag.variant = "none"
  /\ \E ind \in Indeterminate, saturation \in ShadedSaturation :
       Shaded("saturation", saturation,
              main_frag_saturation(uniform, saturation, frag.color, ind))

NextShader == FragUniform \/ FragBayerIndex \/ FragSaturation

SpecShader == InitShader /\ [][NextShader]_vars

----------------------------------------------------------------------------
(* The fragment functions of the three.js component (src/unnamed/part_000). *)
(* It has no adjustments and no uniform buffer: a texel and a threshold go  *)
(* into one step.  grayscale() is three's: the luminance with the Rec. 709  *)
(* coefficients.                                                            *)

\* grayscale(color): dot(rgb, vec3(0.2126, 0.7152, 0.0722))
grayscale(c) ==
  FxAdd(FxAdd(FxMul(c[1], Fx((2126 * Scale) \div 10000)),
              FxMul(c[2], Fx((7152 * Scale) \div 10000))),
        FxMul(c[3], Fx((722 * Scale) \div 10000)))

\* new Uint8Array([0, 8, 2, 10, ...].map(v => (v / 15) * 255)): each product
\* is the whole number 17 * v in double arithmetic, stored as that byte
bayerMatrix ==
  << 0, 136,  34, 170,
   204,  68, 238, 102,
    51, 187,  17, 153,
   255, 119, 221,  85 >>

\* texture(ditherMatrix, uv().mul(500).div(4)).r for the fragment whose
\* uv * 500 falls in pixel (px, py): the 4x4 texture repeats and is sampled
\* to the nearest texel, a byte b read as b / 255
ditherTexel(px, py) == Fx(RoundDiv(bayerMatrix[4 * (py % 4) + (px % 4) + 1] * Scale, 255))

\* ditherFn: bayerMatrix.element(bayerCoord.y).element(bayerCoord.x) on the
\* array bayerIndex (the same four vec4 as the constant of image.ts), then
\* vec3(step(bayerValue, gray))
ditherFn(color, px, py, nanStep) ==
  LET bayerValueAt == Fx((bayerIndex[(py % 4) + 1][(px % 4) + 1] * Scale) \div 16)
      gray == grayscale(color)
  IN [threshold |-> bayerValueAt, grayscale |-> gray,
      out |-> Vec3(FxStep(bayerValueAt, gray, nanStep))]

\* dither, the colorNode of the material: step(grayed.r, threshold)
dither(color, px, py, nanStep) ==
  LET grayed == grayscale(color)
      threshold == ditherTexel(px, py)
      dithered == FxStep(grayed, threshold, nanStep)
  IN [threshold |-> threshold, grayscale |-> grayed, out |-> Vec3(dithered)]

\* the three.js component is about to shade one fragment; it uses none of
\* the other component's state
InitDither ==
  /\ pc = "done"
  /\ root = "undefined"
  /\ bufferCreated = FALSE
  /\ imageTexture = "undefined"
  /\ fullWrites = 0
  /\ edits = 0
  /\ lastOp = Step("frame", "none")
  /\ mounted = TRUE
  /\ matrix = orderedMatrix
  /\ adjustmentsValues = [k \in AdjustmentsKey |-> JsInt(1)]
  /\ uniform = ZeroBuffer
  /\ \E color \in ShadedColors, px \in 0..MaxCoord, py \in 0..MaxCoord :
       frag = NoFrag(color, px, py)

\* the fragment is shaded by ditherFn
FragDitherFn ==
  /\ frag.variant = "none"
  /\ \E nanStep \in {0, 1} :
       Shaded("ditherFn", FxZero, ditherFn(frag.color, frag.px, frag.py, nanStep))

\* the fragment is shaded by dither
FragDither ==
  /\ frag.variant = "none"
  /\ \E nanStep \in {0, 1} :
       Shaded("dither", FxZero, dither(frag.color, frag.px, frag.py, nanStep))

NextDither == FragDitherFn \/ FragDither

SpecDither == InitDither /\ [][NextDither]_vars

----------------------------------------------------------------------------
(* Properties of the component. *)

EditOps == {"slider", "minus", "plus", "change"}
MatrixOps == {"minus", "plus", "change"}

\* this step is a UI event handled
EditStep == edits' = edits + 1

\* every field of the projection but `key` is as it was
OthersUnchanged(key) ==
  /\ \A k \in ScalarPropKeys \ {key} : uniform'[k] = uniform[k]
  /\ uniform'.orderedMatrixArray = uniform.orderedMatrixArray

\* C1, as claimed: after setBufferValue(k, v) has returned, the projected
\* value of k is exactly v and every other projected field is as before.
C1_RoundTripExact ==
  [][(EditStep /\ lastOp'.op = "slider" /\ lastOp'.err = "none")
       => /\ F32EqJs(uniform'[lastOp'.key], lastOp'.value)
          /\ OthersUnchanged(lastOp'.key)]_vars

\* C1, amended: after setBufferValue(k, v) has written (the buffer exists),
\* the projected value of k is the f32 nearest to v, and every other
\* projected field (the other three scalars, every entry of
\* orderedMatrixArray, matrixWidth, matrixHeight) is as before the call.
C1_RoundTripF32 ==
  [][(EditStep /\ lastOp'.op = "slider" /\ lastOp'.err # "writePartial")
       => /\ uniform'[lastOp'.key] = ToF32(lastOp'.value)
          /\ OthersUnchanged(lastOp'.key)]_vars

\* a slider moved to a position f32 does not hold exactly, the call returned
C1_Witness ==
  /\ lastOp.op = "slider" /\ lastOp.err = "none"
  /\ uniform[lastOp.key] = ToF32(lastOp.value)
  /\ ~F32EqJs(uniform[lastOp.key], lastOp.value)
  /\ uniform.orderedMatrixArray[3] = ToF32(Js(15, 16))

\* the flattened index of cell (y, x)
FlatIndex(y, x) == y * matrixWidth + x

\* C2, as claimed: after the cell edit handler has set cell (r, c) to v and
\* re-flattened, the projected array holds v at index r * matrixWidth + c.
C2_CellHoldsValue ==
  [][(EditStep /\ lastOp'.op = "change" /\ lastOp'.err = "none")
       => F32EqJs(uniform'.orderedMatrixArray[FlatIndex(lastOp'.y, lastOp'.x)],
                  lastOp'.value)]_vars

\* C2, amended: after the cell edit handler of TypeGPU.vue has set cell
\* (r, c) to v and written the re-flattened matrix, the projected array
\* holds v / 16 (as an f32) at index r * matrixWidth + c.
C2_CellHoldsSixteenth ==
  [][(EditStep /\ lastOp'.op = "change" /\ lastOp'.err # "writePartial")
       => /\ matrix'[lastOp'.y + 1][lastOp'.x + 1] = lastOp'.value
          /\ uniform'.orderedMatrixArray[FlatIndex(lastOp'.y, lastOp'.x)]
               = ToF32(JsDiv(lastOp'.value, 16))]_vars

\* cell (1, 2) was typed to 7 and index 6 of the projection holds 7/16
C2_Witness ==
  /\ lastOp.op = "change" /\ lastOp.err = "none"
  /\ lastOp.y = 1 /\ lastOp.x = 2 /\ lastOp.value = JsInt(7)
  /\ uniform.orderedMatrixArray[6] = ToF32(Js(7, 16))

\* the projection agrees with the displayed values and the matrix grid
Consistent ==
  /\ \A k \in AdjustmentsKey : uniform[k] = ToF32(adjustmentsValues[k])
  /\ LET entries == MatrixEntries(matrix)
     IN \A i \in 1..Len(entries) :
          uniform.orderedMatrixArray[i - 1] = ToF32(entries[i])
  /\ uniform.matrixWidth = matrixWidth
  /\ uniform.matrixHeight = matrixHeight

\* C3, as claimed: every edit is followed by a redraw, and whenever a
\* redraw is issued the projection is consistent with the displayed values
\* and the matrix grid.
C3_EditThenConsistentRedraw ==
  /\ lastOp.op \in EditOps => lastOp.drew
  /\ lastOp.drew => Consistent

\* the second half of C3 alone
C3_RedrawConsistent == lastOp.drew => Consistent

\* C4, as claimed: the full write happens at most once, and no writePartial
\* and no render() runs before the buffer has been created and fully
\* written and the image texture has been created.
C4_StartupBeforeUse ==
  /\ fullWrites <= 1
  /\ (lastOp.op \in EditOps /\ lastOp.err # "writePartial")
       => (bufferCreated /\ fullWrites = 1 /\ imageTexture = "created")
  /\ lastOp.drew => (bufferCreated /\ fullWrites = 1 /\ imageTexture = "created")

\* what the code does keep of C4: a partial write lands only in a fully
\* written buffer, and a draw is submitted only with the texture created
C4_EffectsOrdered ==
  /\ fullWrites <= 1
  /\ (lastOp.op \in EditOps /\ lastOp.err # "writePartial")
       => (bufferCreated /\ fullWrites = 1)
  /\ lastOp.drew => (bufferCreated /\ fullWrites = 1 /\ imageTexture = "created")

\* this step did not change the parameters or their projection
NothingChanged ==
  /\ adjustmentsValues' = adjustmentsValues
  /\ matrix' = matrix
  /\ uniform' = uniform

\* C5, as claimed: setBufferValue with a name that is not a scalar
\* adjustment field fails and leaves the in-memory parameters and the
\* projected uniform values unchanged.
C5_InvalidFieldRejected ==
  [][(EditStep /\ lastOp'.op = "setBufferValue" /\ lastOp'.key \notin AdjustmentsKey)
       => (lastOp'.err # "none" /\ ~lastOp'.drew /\ NothingChanged)]_vars

\* the indices (y, x) name no cell of the matrix
OutOfRange(y, x) == ~(0 <= y /\ y < matrixHeight /\ 0 <= x /\ x < matrixWidth)

\* C6, as claimed: a cell edit with the row outside 0..matrixHeight-1 or the
\* column outside 0..matrixWidth-1 fails and changes neither the in-memory
\* matrix nor the projected threshold array.
C6_OutOfRangeRejected ==
  [][(EditStep /\ lastOp'.op = "changeAt" /\ OutOfRange(lastOp'.y, lastOp'.x))
       => (lastOp'.err # "none" /\ ~lastOp'.drew /\ NothingChanged)]_vars

----------------------------------------------------------------------------
(* Properties of the fragment functions (specification SpecShader). *)

Dithering == frag.variant \in {"uniform", "bayerIndex"}

StartupUniform == write(ZeroBuffer, orderedMatrix)

MidGray == Vec3(Fx(Scale \div 2))

\* C7: when the dither stage is the terminal stage (the uniform-array and
\* the constant-matrix variants), whatever the sampled color, the pixel and
\* the parameter set, each of the three output channels is exactly 0.0 or
\* exactly 1.0 (never NaN, never a value in between), and the three are
\* equal.
C7_BinaryOutput ==
  Dithering =>
    \A i \in 1..3 : /\ ~frag.out[i].nan
                    /\ frag.out[i].v \in {0, Scale}
                    /\ frag.out[i] = frag.out[1]

\* a colored texel shaded to black under a non-default contrast
C7_Witness ==
  /\ frag.variant = "uniform"
  /\ frag.color[1] # frag.color[3]
  /\ FxOfF32(uniform.contrast) # FxOne
  /\ frag.out = Vec3(FxZero)

\* C8: the threshold lookup tiles: the threshold looked up for pixel (x, y)
\* is the entry looked up for (x + matrixWidth, y) and for
\* (x, y + matrixHeight), in the uniform-array variant and in the
\* constant-matrix variant.
C8_LookupTiles ==
  /\ frag.variant = "uniform" =>
       /\ frag.threshold = bayerValue(uniform, FragCoord(frag.px + uniform.matrixWidth),
                                      FragCoord(frag.py))
       /\ frag.threshold = bayerValue(uniform, FragCoord(frag.px),
                                      FragCoord(frag.py + uniform.matrixHeight))
  /\ frag.variant = "bayerIndex" =>
       /\ frag.threshold = bayerIndexValue(FragCoord(frag.px + uniform.matrixWidth),
                                           FragCoord(frag.py))
       /\ frag.threshold = bayerIndexValue(FragCoord(frag.px),
                                           FragCoord(frag.py + uniform.matrixHeight))

\* a lookup one tile to the right of the first: pixel (matrixWidth, 1)
\* reads 8/16, the entry of cell (row 1, column 0)
C8_Witness ==
  /\ frag.variant = "uniform"
  /\ frag.px = uniform.matrixWidth
  /\ frag.py = 1
  /\ matrix = orderedMatrix
  /\ frag.threshold = Fx((8 * Scale) \div 16)

\* C9: with the parameters written at startup and the canonical 4x4 matrix,
\* for the mid-gray color (0.5, 0.5, 0.5): at pixel (0,0) the threshold
\* looked up is 0/16 and the output is white (1,1,1); at pixel (3,0) the
\* threshold looked up is 15/16 and the output is black (0,0,0).
C9_MidGrayPixels ==
  (frag.variant = "uniform" /\ uniform = StartupUniform /\ frag.color = MidGray) =>
    /\ (frag.px = 0 /\ frag.py = 0) =>
         (frag.threshold = FxZero /\ frag.out = Vec3(FxOne))
    /\ (frag.px = 3 /\ frag.py = 0) =>
         (frag.threshold = Fx((15 * Scale) \div 16) /\ frag.out = Vec3(FxZero))

\* pixel (3,0) of a mid-gray image shaded black at the defaults
C9_Witness ==
  /\ frag.variant = "uniform"
  /\ uniform = StartupUniform
  /\ frag.color = MidGray
  /\ frag.px = 3
  /\ frag.py = 0
  /\ frag.out = Vec3(FxZero)

\* within 1/100 in every channel
Near(a, b) ==
  \A i \in 1..3 : /\ ~a[i].nan
                  /\ ~b[i].nan
                  /\ Abs(a[i].v - b[i].v) <= Scale \div 100

\* C10: with every parameter at its default (the startup buffer, and
\* saturation 1), the tone mapping without the dither stage returns every
\* input color of [0,1]^3 unchanged.
C10_DefaultsAreIdentity ==
  (frag.variant = "saturation" /\ uniform = StartupUniform /\ frag.saturation = FxOne) =>
    Near(frag.out, frag.color)

----------------------------------------------------------------------------
(* Properties of the threshold matrix under cell edits (specification Spec). *)

\* the f32 f lies in [0, 1)
InUnitRange(f) == ~f.nan /\ f.num >= 0 /\ f.exp >= 0 /\ f.num < 2 ^ f.exp

\* the entries of the projected array the shader can index: the first
\* matrixWidth * matrixHeight
Indexable == 0..(uniform.matrixWidth * uniform.matrixHeight - 1)

\* C11: after any sequence of matrix-cell edits (minus, plus, typed number),
\* every entry of the projected threshold array that the shader can index
\* lies in [0, 1).
C11_ThresholdsInUnitRange ==
  \A i \in Indexable : InUnitRange(uniform.orderedMatrixArray[i])

----------------------------------------------------------------------------
(* Properties of the dither comparison. *)

\* the channel is 1.0 exactly when the luminance is >= the threshold, and
\* 0.0 otherwise (for a luminance and a threshold that are numbers)
BrighterTurnsWhite ==
  (~frag.grayscale.nan /\ ~frag.threshold.nan) =>
    \A i \in 1..3 :
      frag.out[i] = IF frag.grayscale.v >= frag.threshold.v THEN FxOne ELSE FxZero

\* C12: in every variant's terminal dither stage the dithered channel is 1.0
\* exactly when the pixel's luminance is greater than or equal to the
\* looked-up threshold and 0.0 otherwise.  Stated here for the two fragment
\* functions of the three.js component.
C12_BrighterTurnsWhite ==
  frag.variant \in {"ditherFn", "dither"} => BrighterTurnsWhite

\* the same for the two WGSL dithering variants (specification SpecShader)
C12_WgslBrighterTurnsWhite == Dithering => BrighterTurnsWhite

----------------------------------------------------------------------------
(* Properties of the shadows parameter (specification SpecContract). *)

\* C13, as claimed: setting shadows to a value <= 0 through setBufferValue
\* fails and changes nothing, and no redraw is issued while the projected
\* shadows is <= 0 (so 1 / shadows is never computed with a zero
\* denominator).
C13_ShadowsZeroRejected ==
  [][/\ (EditStep /\ lastOp'.op = "setBufferValue" /\ lastOp'.key = "shadows"
           /\ lastOp'.value.n <= 0)
          => (lastOp'.err # "none" /\ ~lastOp'.drew /\ NothingChanged)
     /\ (EditStep /\ lastOp'.drew) => uniform'.shadows.num > 0]_vars

\* what the component's own controls keep (specification Spec): a redraw is
\* issued only with a projected shadows > 0
C13_UiKeepsShadowsPositive == lastOp.drew => uniform.shadows.num > 0

\* C14: after any sequence of matrix-cell edits the entries of the threshold
\* matrix are pairwise distinct and evenly spread over [0, 1): the sixteen
\* cells hold each of 0..15 once (sixteen cells covering sixteen values), and
\* once written the projected array holds each of k/16 once.
C14_MatrixIsPermutation ==
  LET cells == Flat(matrix)
  IN /\ Len(cells) = 16
     /\ \A k \in 0..15 : \E i \in 1..Len(cells) : JsEqInt(cells[i], k)
     /\ fullWrites = 1 =>
          \A k \in 0..15 : \E i \in Indexable :
            uniform.orderedMatrixArray[i] = ToF32(Js(k, 16))

----------------------------------------------------------------------------
(* The two threshold lookups compared (specification SpecShader). *)

\* C15: the constant-matrix variant and the uniform-array variant look up
\* the same threshold at every pixel when the uniform holds the canonical
\* matrix: the threshold the constant-matrix variant used for pixel (x, y)
\* is the entry the uniform-array lookup reads for (x, y).
C15_SameThreshold ==
  (frag.variant = "bayerIndex" /\ matrix = orderedMatrix) =>
    frag.threshold = bayerValue(uniform, FragCoord(frag.px), FragCoord(frag.py))

\* what does hold: the constant-matrix variant reads the entry the
\* uniform-array lookup reads for the transposed pixel (y, x)
C15_TransposedThreshold ==
  (frag.variant = "bayerIndex" /\ matrix = orderedMatrix) =>
    frag.threshold = bayerValue(uniform, FragCoord(frag.py), FragCoord(frag.px))

----------------------------------------------------------------------------
(* Properties of teardown (specification Spec). *)

\* C16: once onUnmounted (onCleanup, which destroys the root) has run, no
\* later uniform write, texture creation or render is issued, however the
\* teardown interleaves with the pending startup; and the teardown never
\* runs against a root that has not been created.
C16_TeardownIsFinal ==
  [][/\ (mounted /\ ~mounted') => (root # "undefined" /\ lastOp'.err = "none")
     /\ ~mounted => /\ fullWrites' = fullWrites
                    /\ uniform' = uniform
                    /\ imageTexture' = imageTexture
                    /\ ~lastOp'.drew]_vars

\* the second half alone: after a teardown that found its root, nothing is
\* written, created or drawn
C16_NothingAfterDestroy ==
  [][root = "destroyed" => /\ fullWrites' = fullWrites
                           /\ uniform' = uniform
                           /\ imageTexture' = imageTexture
                           /\ ~lastOp'.drew]_vars

====
